---- MODULE Spec2Model ----
(***************************************************************************)
(* A pointer-level model of queue.c: a circular doubly-linked list with a  *)
(* sentinel head (struct list_head) whose members are element_t records    *)
(* owning a heap-allocated string buffer.                                  *)
(*                                                                         *)
(* The heap is a set of cells.  Cells 1..MaxNodes are element_t            *)
(* allocations, HEAD is the sentinel returned by q_new for the queue, and  *)
(* SCRATCH is the sentinel q_delete_dup obtains from q_new.  A pointer is  *)
(* a cell or NULL.  Each operation of queue.c is an operator from a heap   *)
(* record to a heap record, computed statement by statement, and one       *)
(* action of the state machine.                                            *)
(***************************************************************************)
EXTENDS Integers, Sequences, FiniteSets, TLC

\* ------------------------------------------------------------------ bounds
MaxNodes == 3          \* element_t allocations the heap can hold
MaxStrings == 3        \* how many distinct strings q_insert_* is handed
MaxCap == 2            \* largest bufsize handed to q_remove_*
SizeBits == 3          \* width of size_t in the model
MaxSortLen == 5        \* longest queue of the sort-only specification
RandMax == 3           \* largest value rand() returns (RAND_MAX); it is
                       \* no less than the longest queue shuffled, less 1
MaxShuffleLen == 4     \* longest queue of the reorder-only specification
MaxIngestLen == 7      \* longest queue of the sort-trace specification
MaxIngestStrings == 2  \* distinct strings of the sort-trace specification

NULL == 0
HeapSize ==
    CHOOSE n \in {MaxNodes, MaxSortLen, MaxShuffleLen, MaxIngestLen} :
        \A k \in {MaxNodes, MaxSortLen, MaxShuffleLen, MaxIngestLen} : k <= n
Elems == 1..HeapSize
HEAD == HeapSize + 1
SCRATCH == HeapSize + 2
Cells == 1..(HeapSize + 2)
Ptr == 0..(HeapSize + 2)
SizeMod == 2 ^ SizeBits

\* The strings handed to q_insert_*: the first MaxStrings strings over the
\* bytes 1 and 2, shortest first: "", 1, 2, 11, 12, ...
RECURSIVE StrRank(_)
StrRank(s) ==
    IF s = <<>> THEN 0
    ELSE 2 * StrRank(SubSeq(s, 1, Len(s) - 1)) + s[Len(s)]

Strings ==
    {s \in UNION {[1..n -> 1..2] : n \in 0..MaxStrings} :
        StrRank(s) < MaxStrings}
Caps == 0..MaxCap

\* Let(v, F) is F(v) with v evaluated once and bound: let x = v in F(x).
Only(S) == CHOOSE r \in S : TRUE
Let(v, F(_)) == Only({F(x) : x \in {v}})

\* ------------------------------------------------------------ C strings
\* The bytes of the NUL-terminated buffer that holds string s.
CBuf(s) == Append(s, 0)

\* strlen: number of bytes before the first NUL.
strlen(buf) ==
    LET zs == {i \in 1..Len(buf) : buf[i] = 0}
    IN  IF zs = {} THEN Len(buf)
        ELSE (CHOOSE i \in zs : \A j \in zs : i <= j) - 1

\* The string a buffer denotes (what strcmp and the caller read).
CStr(buf) == SubSeq(buf, 1, strlen(buf))

\* strncpy(dst, src, n): exactly n bytes are written; the bytes of src up
\* to its NUL, then NUL padding.
strncpy(src, n) ==
    [i \in 1..n |-> IF i <= strlen(src) THEN src[i] ELSE 0]

\* strcmp on the denoted strings: byte-wise lexicographic, sign only.
RECURSIVE SeqCmp(_, _)
SeqCmp(a, b) ==
    IF a = <<>> /\ b = <<>> THEN 0
    ELSE IF a = <<>> THEN -1
    ELSE IF b = <<>> THEN 1
    ELSE IF Head(a) < Head(b) THEN -1
    ELSE IF Head(a) > Head(b) THEN 1
    ELSE SeqCmp(Tail(a), Tail(b))

strcmp(x, y) == SeqCmp(CStr(x), CStr(y))

\* ---------------------------------------------------------------- state
VARIABLES
    next,      \* list_head.next of every cell
    prev,      \* list_head.prev of every cell
    val,       \* bytes of the buffer element_t.value points to
    elems,     \* live element_t allocations
    bufs,      \* elements whose value buffer is a live allocation
    sents,     \* live sentinel allocations
    fault,     \* "none", or how the process went wrong
    q,         \* the caller's queue pointer: HEAD or NULL
    removed,   \* elements returned by q_remove_* and not yet released
    out,       \* bytes the last q_remove_* wrote through sp
    lastOp     \* the last call: operation, arguments, return value

vars == <<next, prev, val, elems, bufs, sents, fault, q, removed, out, lastOp>>

Mem == [next |-> next, prev |-> prev, val |-> val, elems |-> elems,
        bufs |-> bufs, sents |-> sents, fault |-> fault]

\* ----------------------------------------------------------- heap access
Ok(m) == m.fault = "none"

Live(m, c) == c \in m.elems \/ c \in m.sents

\* Dereferencing pointer c: NULL is a null dereference, a cell that is not
\* a live allocation a use after free.
Trap(m, c) ==
    IF ~Ok(m) THEN m
    ELSE IF c = NULL THEN [m EXCEPT !.fault = "null"]
    ELSE IF ~Live(m, c) THEN [m EXCEPT !.fault = "uaf"]
    ELSE m

CanDeref(m, c) == Ok(m) /\ c # NULL /\ Live(m, c)

\* malloc(sizeof(element_t)) that succeeds returns a cell not in use.
FreeElems(m) == Elems \ m.elems
NewElem(m) == CHOOSE c \in FreeElems(m) : \A d \in FreeElems(m) : c <= d

\* free(p) of the harness: releasing a block that is not allocated is an
\* error, releasing NULL is not.
free_elem(m, c) ==
    IF ~Ok(m) THEN m
    ELSE IF c \notin m.elems THEN [m EXCEPT !.fault = "badfree"]
    ELSE [m EXCEPT !.elems = @ \ {c},
                   !.next = [@ EXCEPT ![c] = NULL],
                   !.prev = [@ EXCEPT ![c] = NULL]]

free_buf(m, c) ==
    IF ~Ok(m) THEN m
    ELSE IF c \notin m.bufs THEN [m EXCEPT !.fault = "badfree"]
    ELSE [m EXCEPT !.bufs = @ \ {c}, !.val = [@ EXCEPT ![c] = <<>>]]

free_sent(m, c) ==
    IF ~Ok(m) THEN m
    ELSE IF c = NULL THEN m
    ELSE IF c \notin m.sents THEN [m EXCEPT !.fault = "badfree"]
    ELSE [m EXCEPT !.sents = @ \ {c},
                   !.next = [@ EXCEPT ![c] = NULL],
                   !.prev = [@ EXCEPT ![c] = NULL]]

\* --------------------------------------------------- list.h primitives
INIT_LIST_HEAD(m, h) ==
    IF ~CanDeref(m, h) THEN Trap(m, h)
    ELSE [m EXCEPT !.next = [@ EXCEPT ![h] = h],
                   !.prev = [@ EXCEPT ![h] = h]]

list_empty(m, h) == m.next[h] = h

list_is_singular(m, h) == m.next[h] # h /\ m.prev[h] = m.next[h]

list_add(m, node, h) ==
    IF ~CanDeref(m, h) THEN Trap(m, h)
    ELSE IF ~CanDeref(m, node) THEN Trap(m, node)
    ELSE LET nx == m.next[h]
         IN  IF ~CanDeref(m, nx) THEN Trap(m, nx)
             ELSE LET m1 == [m  EXCEPT !.prev = [@ EXCEPT ![nx] = node]]
                      m2 == [m1 EXCEPT !.next = [@ EXCEPT ![node] = nx]]
                      m3 == [m2 EXCEPT !.prev = [@ EXCEPT ![node] = h]]
                  IN  [m3 EXCEPT !.next = [@ EXCEPT ![h] = node]]

list_add_tail(m, node, h) ==
    IF ~CanDeref(m, h) THEN Trap(m, h)
    ELSE IF ~CanDeref(m, node) THEN Trap(m, node)
    ELSE LET pv == m.prev[h]
         IN  IF ~CanDeref(m, pv) THEN Trap(m, pv)
             ELSE LET m1 == [m  EXCEPT !.next = [@ EXCEPT ![pv] = node]]
                      m2 == [m1 EXCEPT !.next = [@ EXCEPT ![node] = h]]
                      m3 == [m2 EXCEPT !.prev = [@ EXCEPT ![node] = pv]]
                  IN  [m3 EXCEPT !.prev = [@ EXCEPT ![h] = node]]

list_del(m, node) ==
    IF ~CanDeref(m, node) THEN Trap(m, node)
    ELSE LET nx == m.next[node]
             pv == m.prev[node]
         IN  IF ~CanDeref(m, nx) THEN Trap(m, nx)
             ELSE IF ~CanDeref(m, pv) THEN Trap(m, pv)
             ELSE LET m1 == [m EXCEPT !.prev = [@ EXCEPT ![nx] = pv]]
                  IN  [m1 EXCEPT !.next = [@ EXCEPT ![pv] = nx]]

list_del_init(m, node) == INIT_LIST_HEAD(list_del(m, node), node)

list_move(m, node, h) == list_add(list_del(m, node), node, h)

\* Reading e->value of cell e: only an element_t has a value; a sentinel is
\* a bare struct list_head, and list_entry of NULL is no element either.
TrapValue(m, e) ==
    IF ~Ok(m) THEN m
    ELSE IF e = NULL THEN [m EXCEPT !.fault = "nullvalue"]
    ELSE IF ~CanDeref(m, e) THEN Trap(m, e)
    ELSE IF e \notin Elems THEN [m EXCEPT !.fault = "sentinel"]
    ELSE IF e \notin m.bufs THEN [m EXCEPT !.fault = "uaf"]
    ELSE m

CanReadValue(m, e) == CanDeref(m, e) /\ e \in Elems /\ e \in m.bufs

\* Loops are unrolled at most Fuel times; a loop that needs more is
\* reported as a fault.
Fuel == 2 * HeapSize + 4

\* ----------------------------------------------------------- q_new, q_free
\* ok: whether malloc succeeds; cell: the block it hands out.
q_new(m, ok, cell) ==
    IF ~ok THEN [m |-> m, ret |-> NULL]
    ELSE [m |-> INIT_LIST_HEAD([m EXCEPT !.sents = @ \cup {cell}], cell),
          ret |-> cell]

q_release_element(m, e) ==
    IF ~CanDeref(m, e) THEN Trap(m, e)
    ELSE IF e \notin Elems THEN [m EXCEPT !.fault = "sentinel"]
    ELSE free_elem(free_buf(m, e), e)

RECURSIVE q_free_loop(_, _, _, _, _)
q_free_loop(m, l, del, safe, fuel) ==
    IF ~Ok(m) THEN m
    ELSE IF del = l THEN m
    ELSE IF fuel = 0 THEN [m EXCEPT !.fault = "loop"]
    ELSE LET m1 == q_release_element(list_del(m, del), del)
         IN  IF ~CanDeref(m1, safe) THEN Trap(m1, safe)
             ELSE q_free_loop(m1, l, safe, m1.next[safe], fuel - 1)

\* q_free without free(l): the sentinel is never released.
q_free_keep_head(m, l) ==
    IF l = NULL THEN m
    ELSE IF ~CanDeref(m, l) THEN Trap(m, l)
    ELSE LET del == m.next[l]
         IN  IF ~CanDeref(m, del) THEN Trap(m, del)
             ELSE q_free_loop(m, l, del, m.next[del], Fuel)

q_free(m, l) ==
    IF l = NULL THEN m
    ELSE IF ~CanDeref(m, l) THEN Trap(m, l)
    ELSE LET del == m.next[l]
         IN  IF ~CanDeref(m, del) THEN Trap(m, del)
             ELSE free_sent(q_free_loop(m, l, del, m.next[del], Fuel), l)

\* ------------------------------------------------------------- q_insert_*
\* okE, okV: whether the element_t and the value malloc succeed.
\* q_insert_head without free(new) when the value malloc fails.
q_insert_head_leak(m, head, s, okE, okV) ==
    IF head = NULL THEN [m |-> m, ret |-> FALSE]
    ELSE IF ~okE THEN [m |-> m, ret |-> FALSE]
    ELSE LET new == NewElem(m)
             m1  == [m EXCEPT !.elems = @ \cup {new}]
             len == (strlen(CBuf(s)) + 1) % SizeMod
         IN  IF ~okV THEN [m |-> m1, ret |-> FALSE]
             ELSE LET m2 == [m1 EXCEPT !.bufs = @ \cup {new},
                                       !.val = [@ EXCEPT ![new] =
                                                  strncpy(CBuf(s), len)]]
                  IN  [m |-> list_add(m2, new, head), ret |-> TRUE]

q_insert_head(m, head, s, okE, okV) ==
    IF head = NULL THEN [m |-> m, ret |-> FALSE]
    ELSE IF ~okE THEN [m |-> m, ret |-> FALSE]
    ELSE LET new == NewElem(m)
             m1  == [m EXCEPT !.elems = @ \cup {new}]
             len == (strlen(CBuf(s)) + 1) % SizeMod
         IN  IF ~okV THEN [m |-> free_elem(m1, new), ret |-> FALSE]
             ELSE LET m2 == [m1 EXCEPT !.bufs = @ \cup {new},
                                       !.val = [@ EXCEPT ![new] =
                                                  strncpy(CBuf(s), len)]]
                  IN  [m |-> list_add(m2, new, head), ret |-> TRUE]

\* q_insert_tail linking with list_add instead of list_add_tail.
q_insert_tail_at_head(m, head, s, okE, okV) ==
    q_insert_head(m, head, s, okE, okV)

q_insert_tail(m, head, s, okE, okV) ==
    IF head = NULL THEN [m |-> m, ret |-> FALSE]
    ELSE IF ~okE THEN [m |-> m, ret |-> FALSE]
    ELSE LET new == NewElem(m)
             m1  == [m EXCEPT !.elems = @ \cup {new}]
             len == (strlen(CBuf(s)) + 1) % SizeMod
         IN  IF ~okV THEN [m |-> free_elem(m1, new), ret |-> FALSE]
             ELSE LET m2 == [m1 EXCEPT !.bufs = @ \cup {new},
                                       !.val = [@ EXCEPT ![new] =
                                                  strncpy(CBuf(s), len)]]
                  IN  [m |-> list_add_tail(m2, new, head), ret |-> TRUE]

\* ------------------------------------------------------------- q_remove_*
\* The bytes strncpy(sp, value, bufsize - 1) and sp[bufsize - 1] = '\0'
\* write, starting at sp[0]; bufsize - 1 is computed in size_t.
SpWrite(value, bufsize) ==
    Append(strncpy(value, (bufsize - 1 + SizeMod) % SizeMod), 0)

\* sp: whether sp is non-null (it then points to bufsize bytes).  Writing
\* past the end of sp is undefined: the build either crashes there (ub =
\* "crash") or carries on (ub = "survive").
q_remove_head(m, head, sp, bufsize, ub) ==
    IF head = NULL \/ list_empty(m, head)
    THEN [m |-> m, ret |-> NULL, out |-> <<>>]
    ELSE LET remove == m.next[head]
             w == IF sp THEN SpWrite(m.val[remove], bufsize) ELSE <<>>
         IN  IF sp /\ ~CanReadValue(m, remove)
             THEN [m |-> TrapValue(m, remove), ret |-> NULL, out |-> <<>>]
             ELSE IF Len(w) > bufsize /\ sp /\ ub = "crash"
             THEN [m |-> [m EXCEPT !.fault = "overflow"], ret |-> NULL,
                   out |-> w]
             ELSE [m |-> list_del_init(m, remove), ret |-> remove,
                   out |-> w]

q_remove_tail(m, head, sp, bufsize, ub) ==
    IF head = NULL \/ list_empty(m, head)
    THEN [m |-> m, ret |-> NULL, out |-> <<>>]
    ELSE LET remove == m.prev[head]
             w == IF sp THEN SpWrite(m.val[remove], bufsize) ELSE <<>>
         IN  IF sp /\ ~CanReadValue(m, remove)
             THEN [m |-> TrapValue(m, remove), ret |-> NULL, out |-> <<>>]
             ELSE IF Len(w) > bufsize /\ sp /\ ub = "crash"
             THEN [m |-> [m EXCEPT !.fault = "overflow"], ret |-> NULL,
                   out |-> w]
             ELSE [m |-> list_del_init(m, remove), ret |-> remove,
                   out |-> w]

\* ------------------------------------------------------------------ q_size
RECURSIVE q_size_walk(_, _, _, _, _)
q_size_walk(m, head, node, len, fuel) ==
    IF node = head THEN len
    ELSE IF fuel = 0 \/ ~CanDeref(m, node) THEN -1
    ELSE q_size_walk(m, head, m.next[node], len + 1, fuel - 1)

\* q_size with len starting at 1: the sentinel is counted too.
q_size_from_one(m, head) ==
    IF head = NULL THEN 0
    ELSE q_size_walk(m, head, m.next[head], 1, Fuel)

q_size(m, head) ==
    IF head = NULL THEN 0
    ELSE q_size_walk(m, head, m.next[head], 0, Fuel)

\* ------------------------------------------------------------ q_delete_mid
RECURSIVE delete_mid_walk(_, _, _)
delete_mid_walk(m, node, len) ==
    IF len > 0 /\ CanDeref(m, node)
    THEN delete_mid_walk(m, m.next[node], len - 2)
    ELSE node

\* q_delete_mid without the list_empty(head) test.
q_delete_mid_unguarded(m, head) ==
    IF head = NULL THEN [m |-> m, ret |-> FALSE]
    ELSE LET node == delete_mid_walk(m, head, q_size(m, head))
         IN  [m |-> q_release_element(list_del(m, node), node),
              ret |-> TRUE]

q_delete_mid(m, head) ==
    IF head = NULL \/ list_empty(m, head) THEN [m |-> m, ret |-> FALSE]
    ELSE LET node == delete_mid_walk(m, head, q_size(m, head))
         IN  [m |-> q_release_element(list_del(m, node), node),
              ret |-> TRUE]

\* ------------------------------------------------------------ q_delete_dup
\* The inner while of q_delete_dup: entry1 is node, entry2 the entry after
\* it; the values are compared only when len is not 0.
\* The inner while of q_delete_dup without the test of len: the values are
\* compared whatever len is.
RECURSIVE delete_dup_inner_nolen(_, _, _, _, _, _)
delete_dup_inner_nolen(m, node, entry2, del_q, len, fuel) ==
    IF ~Ok(m) THEN [m |-> m, len |-> len]
    ELSE IF fuel = 0 THEN [m |-> [m EXCEPT !.fault = "loop"], len |-> len]
    ELSE IF ~CanReadValue(m, node)
         THEN [m |-> TrapValue(m, node), len |-> len]
    ELSE IF ~CanReadValue(m, entry2)
         THEN [m |-> TrapValue(m, entry2), len |-> len]
    ELSE IF strcmp(m.val[node], m.val[entry2]) # 0
         THEN [m |-> m, len |-> len]
    ELSE LET m1 == list_move(m, m.next[node], del_q)
         IN  IF ~Ok(m1) THEN [m |-> m1, len |-> len]
             ELSE delete_dup_inner_nolen(m1, node, m1.next[node], del_q,
                                         len - 1, fuel - 1)

RECURSIVE delete_dup_inner(_, _, _, _, _, _)
delete_dup_inner(m, node, entry2, del_q, len, fuel) ==
    IF ~Ok(m) THEN [m |-> m, len |-> len]
    ELSE IF len = 0 THEN [m |-> m, len |-> len]
    ELSE IF fuel = 0 THEN [m |-> [m EXCEPT !.fault = "loop"], len |-> len]
    ELSE IF ~CanReadValue(m, node)
         THEN [m |-> TrapValue(m, node), len |-> len]
    ELSE IF ~CanReadValue(m, entry2)
         THEN [m |-> TrapValue(m, entry2), len |-> len]
    ELSE IF strcmp(m.val[node], m.val[entry2]) # 0
         THEN [m |-> m, len |-> len]
    ELSE LET m1 == list_move(m, m.next[node], del_q)
         IN  IF ~Ok(m1) THEN [m |-> m1, len |-> len]
             ELSE delete_dup_inner(m1, node, m1.next[node], del_q,
                                   len - 1, fuel - 1)

\* q_delete_dup's outer loop without list_move(node->prev, del_q): the first
\* element of each run of equal values is kept.
RECURSIVE delete_dup_outer_keep(_, _, _, _, _)
delete_dup_outer_keep(m, node, del_q, len, fuel) ==
    IF ~Ok(m) THEN m
    ELSE IF ~(len > 0) THEN m
    ELSE IF fuel = 0 THEN [m EXCEPT !.fault = "loop"]
    ELSE IF ~CanDeref(m, node) THEN Trap(m, node)
    ELSE LET entry1 == node
             entry2 == m.next[node]
         IN  IF ~CanReadValue(m, entry1) THEN TrapValue(m, entry1)
             ELSE IF ~CanReadValue(m, entry2) THEN TrapValue(m, entry2)
             ELSE IF strcmp(m.val[entry1], m.val[entry2]) = 0
             THEN LET r  == delete_dup_inner(m, node, entry2, del_q, len,
                                             Fuel)
                      m1 == r.m
                  IN  IF ~CanDeref(m1, node) THEN Trap(m1, node)
                      ELSE delete_dup_outer_keep(m1, m1.next[node], del_q,
                                                 r.len - 1, fuel - 1)
             ELSE delete_dup_outer_keep(m, m.next[node], del_q, len - 1,
                                        fuel - 1)

RECURSIVE delete_dup_outer(_, _, _, _, _)
delete_dup_outer(m, node, del_q, len, fuel) ==
    IF ~Ok(m) THEN m
    ELSE IF ~(len > 0) THEN m
    ELSE IF fuel = 0 THEN [m EXCEPT !.fault = "loop"]
    ELSE IF ~CanDeref(m, node) THEN Trap(m, node)
    ELSE LET entry1 == node
             entry2 == m.next[node]
         IN  IF ~CanReadValue(m, entry1) THEN TrapValue(m, entry1)
             ELSE IF ~CanReadValue(m, entry2) THEN TrapValue(m, entry2)
             ELSE IF strcmp(m.val[entry1], m.val[entry2]) = 0
             THEN LET r  == delete_dup_inner(m, node, entry2, del_q, len,
                                             Fuel)
                      m1 == r.m
                  IN  IF ~CanDeref(m1, node) THEN Trap(m1, node)
                      ELSE LET node1 == m1.next[node]
                           IN  IF ~CanDeref(m1, node1) THEN Trap(m1, node1)
                               ELSE delete_dup_outer(
                                        list_move(m1, m1.prev[node1], del_q),
                                        node1, del_q, r.len - 1, fuel - 1)
             ELSE delete_dup_outer(m, m.next[node], del_q, len - 1,
                                   fuel - 1)

\* ok: whether the malloc inside q_new succeeds.
q_delete_dup(m, head, ok) ==
    IF head = NULL THEN [m |-> m, ret |-> FALSE]
    ELSE IF list_empty(m, head) \/ list_is_singular(m, head)
         THEN [m |-> m, ret |-> TRUE]
    ELSE LET node  == m.next[head]
             r     == q_new(m, ok, SCRATCH)
             del_q == r.ret
             len   == q_size(r.m, head) - 1
             m1    == delete_dup_outer(r.m, node, del_q, len, Fuel)
         IN  [m |-> q_free(m1, del_q), ret |-> TRUE]

\* ------------------------------------------------------- q_swap, q_reverse
RECURSIVE q_swap_loop(_, _, _, _, _, _)
q_swap_loop(m, head, node, safe, lock, fuel) ==
    IF ~Ok(m) THEN m
    ELSE IF node = head THEN m
    ELSE IF fuel = 0 THEN [m EXCEPT !.fault = "loop"]
    ELSE LET m1 == IF lock
                   THEN LET d == list_del(m, node)
                        IN  IF ~CanDeref(d, safe) THEN Trap(d, safe)
                            ELSE IF ~CanDeref(d, d.prev[safe])
                                 THEN Trap(d, d.prev[safe])
                            ELSE list_add(d, node, d.prev[d.prev[safe]])
                   ELSE m
         IN  IF ~CanDeref(m1, safe) THEN Trap(m1, safe)
             ELSE q_swap_loop(m1, head, safe, m1.next[safe], ~lock,
                              fuel - 1)

\* q_swap with lock starting true: the pairs are (1,2), (3,4), ...
q_swap_locked(m, head) ==
    IF head = NULL \/ list_empty(m, head) THEN m
    ELSE LET node == m.next[head]
         IN  q_swap_loop(m, head, node, m.next[node], TRUE, Fuel)

q_swap(m, head) ==
    IF head = NULL \/ list_empty(m, head) THEN m
    ELSE LET node == m.next[head]
         IN  q_swap_loop(m, head, node, m.next[node], FALSE, Fuel)

\* q_reverse's loop re-inserting with list_add_tail: every node goes back
\* to the end it came from.
RECURSIVE q_reverse_loop_tail(_, _, _, _, _)
q_reverse_loop_tail(m, head, node, safe, fuel) ==
    IF ~Ok(m) THEN m
    ELSE IF node = head THEN m
    ELSE IF fuel = 0 THEN m
    ELSE LET m1 == list_add_tail(list_del(m, node), node, head)
         IN  IF ~CanDeref(m1, safe) THEN Trap(m1, safe)
             ELSE q_reverse_loop_tail(m1, head, safe, m1.next[safe],
                                      fuel - 1)

RECURSIVE q_reverse_loop(_, _, _, _, _)
q_reverse_loop(m, head, node, safe, fuel) ==
    IF ~Ok(m) THEN m
    ELSE IF node = head THEN m
    ELSE IF fuel = 0 THEN [m EXCEPT !.fault = "loop"]
    ELSE LET m1 == list_add(list_del(m, node), node, head)
         IN  IF ~CanDeref(m1, safe) THEN Trap(m1, safe)
             ELSE q_reverse_loop(m1, head, safe, m1.next[safe], fuel - 1)

q_reverse(m, head) ==
    IF head = NULL \/ list_empty(m, head) THEN m
    ELSE LET node == m.next[head]
         IN  q_reverse_loop(m, head, node, m.next[node], Fuel)

\* ------------------------------------------------------------------ q_sort
\* cmp with the two entries exchanged.
cmp_swapped(m, a, b) == strcmp(m.val[b], m.val[a])

\* cmp(a, b): strcmp of the two entries' values.
cmp(m, a, b) == strcmp(m.val[a], m.val[b])

CanCmp(m, a, b) == CanReadValue(m, a) /\ CanReadValue(m, b)

TrapCmp(m, a, b) ==
    IF ~CanReadValue(m, a) THEN TrapValue(m, a) ELSE TrapValue(m, b)

\* struct list_head **tail in merge is either &head (the local, written
\* NULL here) or &c->next for a cell c.
MergeStore(m, head, tail, x) ==
    IF tail = NULL THEN [m |-> m, head |-> x]
    ELSE [m |-> [m EXCEPT !.next = [@ EXCEPT ![tail] = x]], head |-> head]

RECURSIVE merge_loop(_, _, _, _, _, _)
merge_loop(m, head, tail, a, b, fuel) ==
    IF ~Ok(m) THEN [m |-> m, head |-> head]
    ELSE IF fuel = 0 THEN [m |-> [m EXCEPT !.fault = "loop"], head |-> head]
    ELSE IF ~CanCmp(m, a, b) THEN [m |-> TrapCmp(m, a, b), head |-> head]
    ELSE IF cmp(m, a, b) <= 0
    THEN Let(MergeStore(m, head, tail, a), LAMBDA s :
           IF s.m.next[a] = NULL THEN MergeStore(s.m, s.head, a, b)
           ELSE merge_loop(s.m, s.head, a, s.m.next[a], b, fuel - 1))
    ELSE Let(MergeStore(m, head, tail, b), LAMBDA s :
           IF s.m.next[b] = NULL THEN MergeStore(s.m, s.head, b, a)
           ELSE merge_loop(s.m, s.head, b, a, s.m.next[b], fuel - 1))

\* merge taking its two runs in the other order: on a tie the node of the
\* later run comes first.
merge_swapped(m, a, b) == merge_loop(m, NULL, NULL, b, a, Fuel)

merge(m, a, b) == merge_loop(m, NULL, NULL, a, b, Fuel)

\* The second loop of merge_final: relink prev along the rest of the chain.
RECURSIVE merge_final_rest(_, _, _, _)
merge_final_rest(m, tail, b, fuel) ==
    IF ~Ok(m) THEN [m |-> m, tail |-> tail]
    ELSE IF fuel = 0 THEN [m |-> [m EXCEPT !.fault = "loop"], tail |-> tail]
    ELSE IF ~CanDeref(m, b) THEN [m |-> Trap(m, b), tail |-> tail]
    ELSE Let([m EXCEPT !.prev = [@ EXCEPT ![b] = tail]], LAMBDA m1 :
           IF m1.next[b] = NULL THEN [m |-> m1, tail |-> b]
           ELSE merge_final_rest(m1, b, m1.next[b], fuel - 1))

\* tail->next = x; x->prev = tail;
LinkAfter(m, tail, x) ==
    [m EXCEPT !.next = [@ EXCEPT ![tail] = x],
              !.prev = [@ EXCEPT ![x] = tail]]

\* The first loop of merge_final; yields the heap, tail and b at the break.
RECURSIVE merge_final_loop(_, _, _, _, _)
merge_final_loop(m, tail, a, b, fuel) ==
    IF ~Ok(m) THEN [m |-> m, tail |-> tail, b |-> b]
    ELSE IF fuel = 0
         THEN [m |-> [m EXCEPT !.fault = "loop"], tail |-> tail, b |-> b]
    ELSE IF ~CanCmp(m, a, b)
         THEN [m |-> TrapCmp(m, a, b), tail |-> tail, b |-> b]
    ELSE IF cmp(m, a, b) <= 0
    THEN Let(LinkAfter(m, tail, a), LAMBDA m2 :
           IF m2.next[a] = NULL THEN [m |-> m2, tail |-> a, b |-> b]
           ELSE merge_final_loop(m2, a, m2.next[a], b, fuel - 1))
    ELSE Let(LinkAfter(m, tail, b), LAMBDA m2 :
           IF m2.next[b] = NULL THEN [m |-> m2, tail |-> b, b |-> a]
           ELSE merge_final_loop(m2, b, a, m2.next[b], fuel - 1))

\* tail->next = b after the first loop of merge_final.
MergeFinalJoin(r) ==
    IF Ok(r.m) THEN [r.m EXCEPT !.next = [@ EXCEPT ![r.tail] = r.b]]
    ELSE r.m

\* merge_final without its last statement, head->prev = tail.
merge_final_noprev(m, head, a, b) ==
    Let(merge_final_loop(m, head, a, b, Fuel), LAMBDA r :
      Let(merge_final_rest(MergeFinalJoin(r), r.tail, r.b, Fuel), LAMBDA s :
        IF ~Ok(s.m) THEN s.m
        ELSE [s.m EXCEPT !.next = [@ EXCEPT ![s.tail] = head]]))

\* (The int count of merge_final only triggers a cmp(b, b) every 2^32
\* nodes, which changes nothing; it is left out.)
merge_final(m, head, a, b) ==
    Let(merge_final_loop(m, head, a, b, Fuel), LAMBDA r :
      Let(merge_final_rest(MergeFinalJoin(r), r.tail, r.b, Fuel), LAMBDA s :
        IF ~Ok(s.m) THEN s.m
        ELSE [s.m EXCEPT !.next = [@ EXCEPT ![s.tail] = head],
                         !.prev = [@ EXCEPT ![head] = s.tail]]))

\* struct list_head **tail in q_sort is either &pending (the local, written
\* NULL here) or &c->prev for a cell c.
SortLoad(m, pending, tail) == IF tail = NULL THEN pending ELSE m.prev[tail]

\* q_sort's bit loop finding nothing to merge: bits comes out 0 whatever
\* count is, so runs are merged only after the ingest loop.
sort_bits_never(m, pending, tail, bits) ==
    [tail |-> tail, bits |-> 0, null |-> FALSE]

\* for (bits = count; bits & 1; bits >>= 1) tail = &(*tail)->prev;
RECURSIVE sort_bits(_, _, _, _)
sort_bits(m, pending, tail, bits) ==
    IF bits % 2 = 1
    THEN IF SortLoad(m, pending, tail) = NULL
         THEN [tail |-> tail, bits |-> bits, null |-> TRUE]
         ELSE sort_bits(m, pending, SortLoad(m, pending, tail), bits \div 2)
    ELSE [tail |-> tail, bits |-> bits, null |-> FALSE]

\* if (likely(bits)): a = *tail, b = a->prev; a = merge(b, a);
\* a->prev = b->prev; *tail = a.  Yields the heap and pending.
sort_merge_pending(m, pending, tail) ==
    Let(SortLoad(m, pending, tail), LAMBDA a :
      Let(merge(m, m.prev[a], a), LAMBDA g :
        Let([g.m EXCEPT !.prev = [@ EXCEPT ![g.head] = g.m.prev[m.prev[a]]]],
            LAMBDA m1 :
              IF tail = NULL THEN [m |-> m1, pending |-> g.head]
              ELSE [m |-> [m1 EXCEPT !.prev = [@ EXCEPT ![tail] = g.head]],
                    pending |-> pending])))

\* list->prev = pending; pending = list; list = list->next;
\* pending->next = NULL; count++; and the loop test.
RECURSIVE sort_ingest(_, _, _, _, _)
sort_push(r, list, count, fuel) ==
    IF ~Ok(r.m) THEN [m |-> r.m, pending |-> r.pending, count |-> count]
    ELSE Let([r.m EXCEPT !.prev = [@ EXCEPT ![list] = r.pending]],
             LAMBDA m2 :
               IF m2.next[list] = NULL
               THEN [m |-> [m2 EXCEPT !.next = [@ EXCEPT ![list] = NULL]],
                     pending |-> list, count |-> count + 1]
               ELSE sort_ingest(
                        [m2 EXCEPT !.next = [@ EXCEPT ![list] = NULL]],
                        m2.next[list], list, count + 1, fuel - 1))

\* The do-while of q_sort: move list's first node to the pending stack.
sort_ingest(m, list, pending, count, fuel) ==
    IF ~Ok(m) THEN [m |-> m, pending |-> pending, count |-> count]
    ELSE IF fuel = 0
         THEN [m |-> [m EXCEPT !.fault = "loop"], pending |-> pending,
               count |-> count]
    ELSE Let(sort_bits(m, pending, NULL, count), LAMBDA t :
           IF t.null
           THEN [m |-> [m EXCEPT !.fault = "null"], pending |-> pending,
                 count |-> count]
           ELSE IF t.bits # 0
           THEN sort_push(sort_merge_pending(m, pending, t.tail), list,
                          count, fuel)
           ELSE sort_push([m |-> m, pending |-> pending], list, count,
                          fuel))

\* The for (;;) of q_sort without pending = next: the same run is merged
\* again and again.
RECURSIVE sort_fold_stuck(_, _, _, _)
sort_fold_stuck(m, list, pending, fuel) ==
    IF ~Ok(m) THEN [m |-> m, list |-> list, pending |-> pending]
    ELSE IF fuel = 0
         THEN [m |-> [m EXCEPT !.fault = "loop"], list |-> list,
               pending |-> pending]
    ELSE IF ~CanDeref(m, pending)
         THEN [m |-> Trap(m, pending), list |-> list, pending |-> pending]
    ELSE IF m.prev[pending] = NULL
         THEN [m |-> m, list |-> list, pending |-> pending]
    ELSE Let(merge(m, pending, list), LAMBDA g :
           sort_fold_stuck(g.m, g.head, pending, fuel - 1))

\* The for (;;) of q_sort: fold the pending runs into list, leaving the
\* last run in pending.
RECURSIVE sort_fold(_, _, _, _)
sort_fold(m, list, pending, fuel) ==
    IF ~Ok(m) THEN [m |-> m, list |-> list, pending |-> pending]
    ELSE IF fuel = 0
         THEN [m |-> [m EXCEPT !.fault = "loop"], list |-> list,
               pending |-> pending]
    ELSE IF ~CanDeref(m, pending)
         THEN [m |-> Trap(m, pending), list |-> list, pending |-> pending]
    ELSE IF m.prev[pending] = NULL
         THEN [m |-> m, list |-> list, pending |-> pending]
    ELSE Let(merge(m, pending, list), LAMBDA g :
           sort_fold(g.m, g.head, m.prev[pending], fuel - 1))

q_sort(m, head) ==
    IF head = NULL \/ list_empty(m, head) \/ list_is_singular(m, head)
    THEN m
    ELSE Let(sort_ingest(
                 [m EXCEPT !.next = [@ EXCEPT ![m.prev[head]] = NULL]],
                 m.next[head], NULL, 0, Fuel),
             LAMBDA i :
               Let(sort_fold(i.m, i.pending, i.m.prev[i.pending], Fuel),
                   LAMBDA f : merge_final(f.m, head, f.pending, f.list)))

\* --------------------------------------------------------------- q_shuffle
\* q_shuffle's index walk stopping one step early: for (...; i > 1; i--).
RECURSIVE shuffle_walk_short(_, _, _)
shuffle_walk_short(m, node, i) ==
    IF i > 1 /\ CanDeref(m, node)
    THEN shuffle_walk_short(m, m.next[node], i - 1)
    ELSE node

\* for (int i = rand() % len; i > 0; i--) node = node->next;
RECURSIVE shuffle_walk(_, _, _)
shuffle_walk(m, node, i) ==
    IF i > 0 /\ CanDeref(m, node) THEN shuffle_walk(m, m.next[node], i - 1)
    ELSE node

\* q_shuffle's loop without list_del(node): the node is linked in before
\* tail while its old neighbours still point at it.
RECURSIVE shuffle_loop_nodel(_, _, _, _, _)
shuffle_loop_nodel(m, head, tail, len, draws) ==
    IF ~Ok(m) THEN m
    ELSE IF ~(len > 1) THEN m
    ELSE LET node == shuffle_walk(m, m.next[head], draws[len] % len)
         IN  IF ~CanDeref(m, tail) THEN Trap(m, tail)
             ELSE shuffle_loop_nodel(list_add(m, node, m.prev[tail]), head,
                                     node, len - 1, draws)

\* draws[len]: the value rand() returns in the iteration with that len.
RECURSIVE shuffle_loop(_, _, _, _, _)
shuffle_loop(m, head, tail, len, draws) ==
    IF ~Ok(m) THEN m
    ELSE IF ~(len > 1) THEN m
    ELSE LET node == shuffle_walk(m, m.next[head], draws[len] % len)
             d    == list_del(m, node)
         IN  IF ~CanDeref(d, tail) THEN Trap(d, tail)
             ELSE shuffle_loop(list_add(d, node, d.prev[tail]), head, node,
                               len - 1, draws)

q_shuffle(m, head, draws) ==
    IF head = NULL \/ list_empty(m, head) \/ list_is_singular(m, head)
    THEN m
    ELSE shuffle_loop(m, head, head, q_size(m, head), draws)

\* ================================================================ actions
EmptyMem ==
    [next |-> [c \in Cells |-> NULL], prev |-> [c \in Cells |-> NULL],
     val |-> [c \in Elems |-> <<>>], elems |-> {}, bufs |-> {},
     sents |-> {}, fault |-> "none"]

\* A call: its name, its arguments (arg: the string, cap: bufsize or -1 when
\* sp is null), how each malloc it made turned out (alloc), and what it
\* returned (ok: the bool, elem: the element_t pointer, n: the int).
Call(op) == [op |-> op, ok |-> FALSE, elem |-> NULL, arg |-> <<>>,
             cap |-> -1, alloc |-> <<>>, n |-> 0]

Commit(m) ==
    /\ next' = m.next
    /\ prev' = m.prev
    /\ val' = m.val
    /\ elems' = m.elems
    /\ bufs' = m.bufs
    /\ sents' = m.sents
    /\ fault' = m.fault

Running == fault = "none"

\* The queue right after a successful q_new.
Init ==
    \E m \in {q_new(EmptyMem, TRUE, HEAD).m} :
        /\ next = m.next /\ prev = m.prev /\ val = m.val
        /\ elems = m.elems /\ bufs = m.bufs /\ sents = m.sents
        /\ fault = m.fault
        /\ q = HEAD
        /\ removed = {}
        /\ out = <<>>
        /\ lastOp = Call("q_new")

QNew ==
    /\ Running /\ q = NULL
    /\ \E ok \in BOOLEAN :
         \E r \in {q_new(Mem, ok, HEAD)} :
             /\ Commit(r.m)
             /\ q' = r.ret
             /\ lastOp' = [Call("q_new") EXCEPT !.ok = (r.ret # NULL),
                                                !.alloc = <<ok>>]
    /\ UNCHANGED <<removed>>
    /\ out' = <<>>

QFree ==
    /\ Running
    /\ \E m \in {q_free(Mem, q)} : Commit(m)
    /\ q' = NULL
    /\ lastOp' = Call("q_free")
    /\ out' = <<>>
    /\ UNCHANGED <<removed>>

\* malloc fails when the allocator chooses to, and when the heap is full.
MallocMay(ok) == ok => Cardinality(elems) < MaxNodes

\* The outcomes of the mallocs q_insert_* reaches.
Mallocs(head, okE, okV) ==
    IF head = NULL THEN <<>>
    ELSE IF ~okE THEN <<FALSE>>
    ELSE <<TRUE, okV>>

QInsertHead ==
    /\ Running
    /\ \E s \in Strings, okE \in BOOLEAN, okV \in BOOLEAN :
         /\ MallocMay(okE)
         /\ (okV => okE)
         /\ \E r \in {q_insert_head(Mem, q, s, okE, okV)} :
                /\ Commit(r.m)
                /\ lastOp' = [Call("q_insert_head") EXCEPT
                                 !.ok = r.ret, !.arg = s,
                                 !.alloc = Mallocs(q, okE, okV)]
    /\ out' = <<>>
    /\ UNCHANGED <<q, removed>>

QInsertTail ==
    /\ Running
    /\ \E s \in Strings, okE \in BOOLEAN, okV \in BOOLEAN :
         /\ MallocMay(okE)
         /\ (okV => okE)
         /\ \E r \in {q_insert_tail(Mem, q, s, okE, okV)} :
                /\ Commit(r.m)
                /\ lastOp' = [Call("q_insert_tail") EXCEPT
                                 !.ok = r.ret, !.arg = s,
                                 !.alloc = Mallocs(q, okE, okV)]
    /\ out' = <<>>
    /\ UNCHANGED <<q, removed>>

\* Calls that differ only in an argument the code never looks at are one
\* call: bufsize without sp, the outcome of an overflow without one.
RemoveArgs(sp, bufsize, ub) ==
    /\ ~sp => bufsize = 0
    /\ ub = "crash" => sp /\ bufsize = 0 /\ q # NULL

Removed(r) == IF r.ret = NULL THEN removed ELSE removed \cup {r.ret}

QRemoveHead ==
    /\ Running
    /\ \E sp \in BOOLEAN, bufsize \in Caps, ub \in {"crash", "survive"} :
         /\ RemoveArgs(sp, bufsize, ub)
         /\ \E r \in {q_remove_head(Mem, q, sp, bufsize, ub)} :
             /\ Commit(r.m)
             /\ removed' = Removed(r)
             /\ out' = r.out
             /\ lastOp' = [Call("q_remove_head") EXCEPT
                              !.elem = r.ret,
                              !.cap = IF sp THEN bufsize ELSE -1]
    /\ UNCHANGED <<q>>

QRemoveTail ==
    /\ Running
    /\ \E sp \in BOOLEAN, bufsize \in Caps, ub \in {"crash", "survive"} :
         /\ RemoveArgs(sp, bufsize, ub)
         /\ \E r \in {q_remove_tail(Mem, q, sp, bufsize, ub)} :
             /\ Commit(r.m)
             /\ removed' = Removed(r)
             /\ out' = r.out
             /\ lastOp' = [Call("q_remove_tail") EXCEPT
                              !.elem = r.ret,
                              !.cap = IF sp THEN bufsize ELSE -1]
    /\ UNCHANGED <<q>>

\* The caller releases an element q_remove_* handed to it.
QReleaseElement ==
    /\ Running
    /\ \E e \in removed :
         /\ \E m \in {q_release_element(Mem, e)} : Commit(m)
         /\ removed' = removed \ {e}
         /\ lastOp' = [Call("q_release_element") EXCEPT !.elem = e]
    /\ out' = <<>>
    /\ UNCHANGED <<q>>

QSize ==
    /\ Running
    /\ lastOp' = [Call("q_size") EXCEPT !.n = q_size(Mem, q)]
    /\ out' = <<>>
    /\ UNCHANGED <<next, prev, val, elems, bufs, sents, fault, q, removed>>

QDeleteMid ==
    /\ Running
    /\ \E r \in {q_delete_mid(Mem, q)} :
           /\ Commit(r.m)
           /\ lastOp' = [Call("q_delete_mid") EXCEPT !.ok = r.ret]
    /\ out' = <<>>
    /\ UNCHANGED <<q, removed>>

\* The outcome of the malloc q_delete_dup reaches through q_new.
DupMallocs(head, ok) ==
    IF head = NULL THEN <<>>
    ELSE IF list_empty(Mem, head) \/ list_is_singular(Mem, head) THEN <<>>
    ELSE <<ok>>

QDeleteDup ==
    /\ Running
    /\ \E ok \in BOOLEAN :
         \E r \in {q_delete_dup(Mem, q, ok)} :
             /\ Commit(r.m)
             /\ lastOp' = [Call("q_delete_dup") EXCEPT
                              !.ok = r.ret,
                              !.alloc = DupMallocs(q, ok)]
    /\ out' = <<>>
    /\ UNCHANGED <<q, removed>>

QSwap ==
    /\ Running
    /\ \E m \in {q_swap(Mem, q)} : Commit(m)
    /\ lastOp' = Call("q_swap")
    /\ out' = <<>>
    /\ UNCHANGED <<q, removed>>

QReverse ==
    /\ Running
    /\ \E m \in {q_reverse(Mem, q)} : Commit(m)
    /\ lastOp' = Call("q_reverse")
    /\ out' = <<>>
    /\ UNCHANGED <<q, removed>>

QSort ==
    /\ Running
    /\ \E m \in {q_sort(Mem, q)} : Commit(m)
    /\ lastOp' = Call("q_sort")
    /\ out' = <<>>
    /\ UNCHANGED <<q, removed>>

QShuffle ==
    /\ Running
    /\ \E draws \in [2..q_size(Mem, q) -> 0..RandMax] :
         \E m \in {q_shuffle(Mem, q, draws)} : Commit(m)
    /\ lastOp' = Call("q_shuffle")
    /\ out' = <<>>
    /\ UNCHANGED <<q, removed>>

Next ==
    \/ QNew
    \/ QFree
    \/ QInsertHead
    \/ QInsertTail
    \/ QRemoveHead
    \/ QRemoveTail
    \/ QReleaseElement
    \/ QSize
    \/ QDeleteMid
    \/ QDeleteDup
    \/ QSwap
    \/ QReverse
    \/ QSort
    \/ QShuffle

Spec == Init /\ [][Next]_vars

\* A second specification for the list algorithms: it starts from any queue
\* of up to MaxSortLen strings, as q_new and that many q_insert_tail calls
\* leave it, and runs the operations that only relink or delete.
RECURSIVE Filled(_, _)
Filled(m, ss) ==
    IF ss = <<>> THEN m
    ELSE Filled(q_insert_tail(m, HEAD, Head(ss), TRUE, TRUE).m, Tail(ss))

InitAlg ==
    \E n \in 0..MaxSortLen :
      \E ss \in [1..n -> Strings] :
        \E m \in {Filled(q_new(EmptyMem, TRUE, HEAD).m, ss)} :
            /\ next = m.next /\ prev = m.prev /\ val = m.val
            /\ elems = m.elems /\ bufs = m.bufs /\ sents = m.sents
            /\ fault = m.fault
            /\ q = HEAD
            /\ removed = {}
            /\ out = <<>>
            /\ lastOp = [Call("q_insert_tail") EXCEPT !.ok = (n > 0)]

NextAlg ==
    \/ QSort
    \/ QDeleteDup
    \/ QDeleteMid
    \/ QSwap

SpecAlg == InitAlg /\ [][NextAlg]_vars

\* The state q_new and q_insert_tail of each string of ss leave.
StartWith(ss) ==
    \E m \in {Filled(q_new(EmptyMem, TRUE, HEAD).m, ss)} :
        /\ next = m.next /\ prev = m.prev /\ val = m.val
        /\ elems = m.elems /\ bufs = m.bufs /\ sents = m.sents
        /\ fault = m.fault
        /\ q = HEAD
        /\ removed = {}
        /\ out = <<>>
        /\ lastOp = [Call("q_insert_tail") EXCEPT !.ok = (ss # <<>>)]

\* A third specification for the operations that only reorder: it starts
\* from any queue of up to MaxShuffleLen strings.
InitPerm ==
    \E n \in 0..MaxShuffleLen : \E ss \in [1..n -> Strings] : StartWith(ss)

NextPerm ==
    \/ QReverse
    \/ QShuffle

SpecPerm == InitPerm /\ [][NextPerm]_vars

\* A fourth specification for q_sort alone on longer queues of few distinct
\* strings, where the pending stack gets deep and ties are many.
IngestStrings == {s \in Strings : StrRank(s) < MaxIngestStrings}

InitSort ==
    \E n \in 0..MaxIngestLen :
        \E ss \in [1..n -> IngestStrings] : StartWith(ss)

NextSort == QSort

SpecSort == InitSort /\ [][NextSort]_vars

\* ------------------------------------------------------- observations
\* The cells met following f from the sentinel h until h comes back (or the
\* walk leaves the live heap, or more cells than exist were met).
RECURSIVE Walk(_, _, _, _, _)
Walk(f, h, c, acc, fuel) ==
    IF c = h \/ c = NULL \/ fuel = 0 THEN acc
    ELSE Walk(f, h, f[c], Append(acc, c), fuel - 1)

Ring == IF q = NULL THEN <<>> ELSE Walk(next, q, next[q], <<>>, Fuel)
RingBack == IF q = NULL THEN <<>> ELSE Walk(prev, q, prev[q], <<>>, Fuel)
RingN == IF q' = NULL THEN <<>> ELSE Walk(next', q', next'[q'], <<>>, Fuel)

Range(s) == {s[i] : i \in 1..Len(s)}
Reverse(s) == [i \in 1..Len(s) |-> s[Len(s) + 1 - i]]
Values(s) == [i \in 1..Len(s) |-> CStr(val[s[i]])]
ValuesN(s) == [i \in 1..Len(s) |-> CStr(val'[s[i]])]

TypeOK ==
    /\ next \in [Cells -> Ptr]
    /\ prev \in [Cells -> Ptr]
    /\ elems \subseteq Elems
    /\ bufs \subseteq Elems
    /\ sents \subseteq {HEAD, SCRATCH}
    /\ q \in {NULL, HEAD}
    /\ removed \subseteq Elems
    /\ fault \in {"none", "null", "nullvalue", "uaf", "badfree",
                  "sentinel", "loop", "overflow"}

\* =============================================================== claims
Min(a, b) == IF a < b THEN a ELSE b
Count(s, v) == Cardinality({i \in 1..Len(s) : s[i] = v})
RemoveAt(s, i) == SubSeq(s, 1, i - 1) \o SubSeq(s, i + 1, Len(s))
Sorted(vs) == \A i \in 1..(Len(vs) - 1) : SeqCmp(vs[i], vs[i + 1]) <= 0
Did(op) == lastOp'.op = op

\* C1 (ring integrity): whenever the operations so far have completed on a
\* live queue, every node n of the ring (sentinel included) has
\* n.next.prev = n and n.prev.next = n; following next from the sentinel
\* comes back to the sentinel having met exactly the live elements the
\* caller does not hold, each once, q_size(q) of them; following prev meets
\* the same nodes in the opposite order.
RingIntegrity ==
    (fault = "none" /\ q # NULL) =>
        /\ \A c \in Range(Ring) \cup {q} :
             /\ next[c] # NULL /\ prev[c] # NULL
             /\ prev[next[c]] = c
             /\ next[prev[c]] = c
        /\ next[IF Ring = <<>> THEN q ELSE Ring[Len(Ring)]] = q
        /\ prev[IF RingBack = <<>> THEN q ELSE RingBack[Len(RingBack)]] = q
        /\ Cardinality(Range(Ring)) = Len(Ring)
        /\ Range(Ring) = elems \ removed
        /\ Len(Ring) = q_size(Mem, q)
        /\ RingBack = Reverse(Ring)

\* C1 witness: q_sort has just relinked a ring of three elements into an
\* order other than the one they were allocated in.
RingIntegrityWitness ==
    /\ lastOp.op = "q_sort"
    /\ fault = "none"
    /\ Len(Ring) = 3
    /\ Ring[1] > Ring[2]

\* C2 (sort correctness): a q_sort step leaves the values read head to tail
\* in ascending strcmp order, the ring holding the same nodes, and every
\* node its value, so the multiset of values is what it was.
SortStep ==
    Did("q_sort") =>
        /\ fault' = "none"
        /\ Sorted(ValuesN(RingN))
        /\ Range(RingN) = Range(Ring)
        /\ Len(RingN) = Len(Ring)
        /\ \A v \in Strings :
             Count(ValuesN(RingN), v) = Count(Values(Ring), v)
        /\ \A e \in Range(Ring) : val'[e] = val[e]

SortCorrect == [][SortStep]_vars

\* C2 witness: q_sort has returned on a queue of five whose first two nodes
\* are not the first two allocated, with at least two distinct values.
SortCorrectWitness ==
    /\ lastOp.op = "q_sort"
    /\ Len(Ring) >= 5
    /\ Ring[1] > Ring[2]
    /\ Ring[2] > 1
    /\ Values(Ring)[1] # Values(Ring)[Len(Ring)]

\* C3 (delete_middle index), as claimed: q_delete_mid on n >= 1 elements
\* returns true and removes and releases exactly the element at 0-based
\* index floor(n/2), the others keeping their order.
DeleteMidStepFloor ==
    (Did("q_delete_mid") /\ q # NULL /\ Len(Ring) >= 1) =>
        /\ fault' = "none"
        /\ lastOp'.ok
        /\ RingN = RemoveAt(Ring, (Len(Ring) \div 2) + 1)
        /\ elems' = elems \ {Ring[(Len(Ring) \div 2) + 1]}
        /\ bufs' = bufs \ {Ring[(Len(Ring) \div 2) + 1]}

DeleteMidFloor == [][DeleteMidStepFloor]_vars

\* C4 (dedup correctness): q_delete_dup on a queue sorted ascending returns
\* true leaving exactly the elements whose value occurred once, in their
\* original order and with their values, so no two neighbours compare equal
\* and no value that occurred twice or more is left.  (The one call that
\* does not return is the one whose scratch q_new failed, C9.)
DeleteDupStep ==
    (Did("q_delete_dup") /\ q # NULL /\ Sorted(Values(Ring))) =>
        /\ fault' = "none" \/ (fault' = "null" /\ lastOp'.alloc = <<FALSE>>)
        /\ fault' = "none" =>
             /\ lastOp'.ok
             /\ RingN = SelectSeq(Ring,
                    LAMBDA e : Count(Values(Ring), CStr(val[e])) = 1)
             /\ ValuesN(RingN) = Values(RingN)
             /\ \A i \in 1..(Len(RingN) - 1) :
                  ValuesN(RingN)[i] # ValuesN(RingN)[i + 1]
             /\ \A v \in Strings :
                  Count(ValuesN(RingN), v) =
                      (IF Count(Values(Ring), v) = 1 THEN 1 ELSE 0)

DeleteDupCorrect == [][DeleteDupStep]_vars

\* C4 witness: of four elements inserted as 1..4, q_delete_dup has deleted
\* the equal pair 2, 3 and left 1 and 4 with distinct values.
DeleteDupCorrectWitness ==
    /\ lastOp.op = "q_delete_dup"
    /\ lastOp.ok
    /\ fault = "none"
    /\ Ring = <<1, 4>>
    /\ elems = {1, 4}
    /\ SeqCmp(Values(Ring)[1], Values(Ring)[2]) < 0

\* C5 (double-ended sequence): a successful q_insert_head puts a new node
\* holding s before the old ring and q_insert_tail after it; q_remove_head
\* returns the first node and q_remove_tail the last, leaving the rest and
\* the returned node's value; and from every state, inserting any s and
\* removing at once from the same end returns a node whose value is s and
\* leaves the ring as it was.
DequeStep ==
    /\ (Did("q_insert_head") /\ lastOp'.ok) =>
         /\ Len(RingN) = Len(Ring) + 1
         /\ Tail(RingN) = Ring
         /\ ValuesN(RingN) = <<lastOp'.arg>> \o Values(Ring)
    /\ (Did("q_insert_tail") /\ lastOp'.ok) =>
         /\ Len(RingN) = Len(Ring) + 1
         /\ SubSeq(RingN, 1, Len(Ring)) = Ring
         /\ ValuesN(RingN) = Values(Ring) \o <<lastOp'.arg>>
    /\ (Did("q_remove_head") /\ lastOp'.elem # NULL) =>
         /\ Ring = <<lastOp'.elem>> \o RingN
         /\ ValuesN(Ring) = Values(Ring)
    /\ (Did("q_remove_tail") /\ lastOp'.elem # NULL) =>
         /\ Ring = RingN \o <<lastOp'.elem>>
         /\ ValuesN(Ring) = Values(Ring)
    /\ ((Did("q_remove_head") \/ Did("q_remove_tail")) /\ fault' = "none") =>
         (lastOp'.elem = NULL <=> Ring = <<>>)

RingOf(m, h) == Walk(m.next, h, m.next[h], <<>>, Fuel)

RoundTrip ==
    (fault = "none" /\ q # NULL /\ Cardinality(elems) < MaxNodes) =>
        \A s \in Strings :
            LET ih == q_insert_head(Mem, q, s, TRUE, TRUE)
                rh == q_remove_head(ih.m, q, FALSE, 0, "survive")
                it == q_insert_tail(Mem, q, s, TRUE, TRUE)
                rt == q_remove_tail(it.m, q, FALSE, 0, "survive")
            IN  /\ ih.ret /\ rh.ret # NULL
                /\ CStr(rh.m.val[rh.ret]) = s
                /\ RingOf(rh.m, q) = Ring
                /\ it.ret /\ rt.ret # NULL
                /\ CStr(rt.m.val[rt.ret]) = s
                /\ RingOf(rt.m, q) = Ring

DequeRefinement == [][DequeStep]_vars /\ []RoundTrip

\* C5 witness: q_remove_head has just returned, from a ring that still has
\* members, an element holding the empty string.
DequeRefinementWitness ==
    /\ lastOp.op = "q_remove_head"
    /\ lastOp.elem # NULL
    /\ lastOp.elem \in removed
    /\ CStr(val[lastOp.elem]) = <<>>
    /\ Len(Ring) >= 1

\* C6 (remove copy bound), as claimed: with sp non-null, q_remove_* writes
\* at most bufsize bytes: the first min(strlen(value), bufsize - 1) bytes of
\* the value and a terminator, for every bufsize, 0 included.
RemoveCopyBound ==
    (lastOp.op \in {"q_remove_head", "q_remove_tail"} /\ lastOp.cap >= 0
        /\ lastOp.elem # NULL) =>
        /\ Len(out) <= lastOp.cap
        /\ strlen(out) < Len(out)
        /\ CStr(out) =
             SubSeq(CStr(val[lastOp.elem]), 1,
                    Min(strlen(val[lastOp.elem]),
                        (lastOp.cap - 1 + SizeMod) % SizeMod))

\* C7 (insert failure atomicity): a q_insert_* call that returns false
\* because a malloc failed leaves every link, value and allocation as it
\* was: the ring is the same and nothing allocated in the call is live.
InsertFailStep ==
    ((Did("q_insert_head") \/ Did("q_insert_tail")) /\ q # NULL
        /\ FALSE \in Range(lastOp'.alloc)) =>
        /\ ~lastOp'.ok
        /\ UNCHANGED <<next, prev, val, elems, bufs, sents, fault, removed>>

InsertFailureAtomic == [][InsertFailStep]_vars

\* C7 witness: q_insert_tail on a non-empty queue has returned false after
\* its element_t malloc succeeded and its value malloc failed.
InsertFailureAtomicWitness ==
    /\ lastOp.op = "q_insert_tail"
    /\ lastOp.alloc = <<TRUE, FALSE>>
    /\ ~lastOp.ok
    /\ Len(Ring) >= 1

\* C8 (allocation ownership): between completed calls the live allocations
\* are the sentinel of the queue, and one element_t and one buffer for each
\* ring member and for each element returned by q_remove_* and not yet
\* released; nothing is freed twice or used after free; q_remove_* frees
\* nothing; q_delete_mid and q_delete_dup free exactly the elements they
\* take out of the ring (and q_delete_dup its scratch sentinel); q_free
\* leaves nothing of the queue live.
Owned ==
    /\ fault \notin {"uaf", "badfree"}
    /\ fault = "none" =>
         /\ sents = (IF q = NULL THEN {} ELSE {HEAD})
         /\ elems = Range(Ring) \cup removed
         /\ Range(Ring) \cap removed = {}
         /\ bufs = elems

OwnedStep ==
    /\ (Did("q_remove_head") \/ Did("q_remove_tail")) =>
         /\ elems' = elems /\ bufs' = bufs /\ sents' = sents
    /\ ((Did("q_delete_mid") \/ Did("q_delete_dup")) /\ fault' = "none") =>
         /\ elems \ elems' = Range(Ring) \ Range(RingN)
         /\ bufs \ bufs' = Range(Ring) \ Range(RingN)
         /\ elems' \subseteq elems
         /\ sents' = sents
         /\ removed' = removed
    /\ Did("q_free") =>
         /\ fault' = "none"
         /\ sents' = {}
         /\ elems' = removed /\ bufs' = removed

Ownership == []Owned /\ [][OwnedStep]_vars

\* C8 witness: while the caller holds a removed element, q_delete_dup got
\* its scratch sentinel, deleted every ring member and returned.
OwnershipWitness ==
    /\ lastOp.op = "q_delete_dup"
    /\ lastOp.alloc = <<TRUE>>
    /\ fault = "none"
    /\ removed # {}
    /\ elems = removed
    /\ sents = {HEAD}

\* C9 (delete_duplicates totality), as claimed: whatever mallocs fail,
\* q_delete_dup on a non-null queue completes without dereferencing a null
\* pointer and returns true.
DeleteDupTotal ==
    (lastOp.op = "q_delete_dup" /\ q # NULL) =>
        /\ fault = "none"
        /\ lastOp.ok

\* C10 (swap pairs): q_swap turns e0..e(n-1) into e1,e0,e3,e2,..., an odd
\* last element staying last, and neither allocates nor frees.
SwapSeq(s) ==
    [i \in 1..Len(s) |->
        IF i % 2 = 1 /\ i < Len(s) THEN s[i + 1]
        ELSE IF i % 2 = 0 THEN s[i - 1]
        ELSE s[i]]

SwapStep ==
    Did("q_swap") =>
        /\ fault' = "none"
        /\ RingN = SwapSeq(Ring)
        /\ UNCHANGED <<val, elems, bufs, sents>>

SwapPairs == [][SwapStep]_vars

\* C10 witness: q_swap has turned the five elements 1..5 into 2,1,4,3,5.
SwapPairsWitness ==
    /\ lastOp.op = "q_swap"
    /\ Ring = <<2, 1, 4, 3, 5>>

\* C11 (reverse): q_reverse leaves the same element nodes in the ring in
\* exactly the reverse head-to-tail order, allocating and freeing nothing
\* and changing no value; and from every state, q_reverse applied twice
\* gives back the order (and every link) the ring had.
ReverseStep ==
    Did("q_reverse") =>
        /\ fault' = "none"
        /\ RingN = Reverse(Ring)
        /\ Range(RingN) = Range(Ring)
        /\ UNCHANGED <<val, elems, bufs, sents, removed>>

ReverseTwice ==
    (fault = "none" /\ q # NULL) =>
        LET once  == q_reverse(Mem, q)
            twice == q_reverse(once, q)
        IN  /\ Ok(once) /\ Ok(twice)
            /\ RingOf(once, q) = Reverse(Ring)
            /\ RingOf(twice, q) = Ring
            /\ twice = Mem

ReverseInvolution == [][ReverseStep]_vars /\ []ReverseTwice

\* C11 witness: q_reverse has turned the four elements 1..4, holding at
\* least two distinct values, into 4,3,2,1.
ReverseInvolutionWitness ==
    /\ lastOp.op = "q_reverse"
    /\ Ring = <<4, 3, 2, 1>>
    /\ Values(Ring)[1] # Values(Ring)[4]

\* C12 (shuffle permutation): whatever rand() returns, q_shuffle completes
\* leaving in the ring exactly the nodes it held, each once, so the size is
\* the same, with every value untouched, so the multiset of values is the
\* same; nothing is allocated or freed.
ShuffleStep ==
    Did("q_shuffle") =>
        /\ fault' = "none"
        /\ UNCHANGED <<val, elems, bufs, sents, removed>>
        /\ \A before \in {Ring}, after \in {RingN} :
             /\ Len(after) = Len(before)
             /\ Range(after) = Range(before)
             /\ Cardinality(Range(after)) = Len(after)
             /\ \A v \in Strings :
                  Count(ValuesN(after), v) = Count(Values(before), v)

ShufflePermutation == [][ShuffleStep]_vars

\* C12 witness: q_shuffle has left four elements in an order that is
\* neither the order of allocation nor its reverse, values differing.
ShufflePermutationWitness ==
    /\ lastOp.op = "q_shuffle"
    /\ Ring = <<3, 1, 4, 2>>
    /\ Values(Ring)[1] # Values(Ring)[2]

\* C13 (size conservation): q_size returns the number of elements in the
\* ring, 0 for a null or an empty queue, and changes nothing; a q_insert_*
\* that returns true leaves q_size one larger, a q_remove_* that returns an
\* element one smaller.
MemN == [next |-> next', prev |-> prev', val |-> val', elems |-> elems',
         bufs |-> bufs', sents |-> sents', fault |-> fault']

SizeIsCount ==
    fault = "none" =>
        /\ q_size(Mem, q) = Len(Ring)
        /\ q # NULL => q_size(Mem, q) = Cardinality(elems \ removed)
        /\ (q = NULL \/ list_empty(Mem, q)) <=> q_size(Mem, q) = 0

SizeStep ==
    /\ Did("q_size") =>
         /\ lastOp'.n = Len(Ring)
         /\ UNCHANGED <<next, prev, val, elems, bufs, sents, fault, q>>
    /\ ((Did("q_insert_head") \/ Did("q_insert_tail")) /\ lastOp'.ok) =>
         q_size(MemN, q') = q_size(Mem, q) + 1
    /\ ((Did("q_remove_head") \/ Did("q_remove_tail"))
            /\ lastOp'.elem # NULL) =>
         q_size(MemN, q') = q_size(Mem, q) - 1

SizeConservation == []SizeIsCount /\ [][SizeStep]_vars

\* C13 witness: q_size has returned 2 for a ring that an element was
\* removed from and not yet released.
SizeConservationWitness ==
    /\ lastOp.op = "q_size"
    /\ lastOp.n = 2
    /\ removed # {}
    /\ Len(Ring) = 2

\* C14 (null and empty queue handling): on a null queue q_insert_* return
\* false, q_remove_* return NULL, q_size returns 0, q_delete_mid and
\* q_delete_dup return false, and q_free, q_swap, q_reverse, q_sort and
\* q_shuffle do nothing; on an empty queue q_remove_* return NULL,
\* q_delete_mid returns false, q_delete_dup returns true, and q_swap,
\* q_reverse, q_sort and q_shuffle (q_sort and q_shuffle on one element
\* too) leave every link as it was, the sentinel linked to itself or to its
\* one element; none of these calls faults or changes the heap.
Relinkers == {"q_swap", "q_reverse", "q_sort", "q_shuffle"}

HeapKept ==
    /\ fault' = "none"
    /\ UNCHANGED <<next, prev, val, elems, bufs, sents, removed>>

NullQueueStep ==
    q = NULL =>
        /\ lastOp'.op \notin {"q_new", "q_release_element"} =>
             HeapKept /\ q' = NULL
        /\ (Did("q_insert_head") \/ Did("q_insert_tail")) =>
             ~lastOp'.ok /\ lastOp'.alloc = <<>>
        /\ (Did("q_remove_head") \/ Did("q_remove_tail")) =>
             lastOp'.elem = NULL /\ out' = <<>>
        /\ Did("q_size") => lastOp'.n = 0
        /\ (Did("q_delete_mid") \/ Did("q_delete_dup")) =>
             ~lastOp'.ok /\ lastOp'.alloc = <<>>

EmptyQueueStep ==
    (q # NULL /\ Ring = <<>>) =>
        /\ (Did("q_remove_head") \/ Did("q_remove_tail")) =>
             lastOp'.elem = NULL /\ out' = <<>> /\ HeapKept
        /\ Did("q_delete_mid") => ~lastOp'.ok /\ HeapKept
        /\ Did("q_delete_dup") =>
             lastOp'.ok /\ lastOp'.alloc = <<>> /\ HeapKept
        /\ lastOp'.op \in Relinkers =>
             HeapKept /\ next'[q] = q /\ prev'[q] = q

SingletonStep ==
    (q # NULL /\ Len(Ring) = 1 /\ (Did("q_sort") \/ Did("q_shuffle"))) =>
        /\ HeapKept
        /\ next'[q] = Ring[1] /\ prev'[q] = Ring[1]
        /\ next'[Ring[1]] = q /\ prev'[Ring[1]] = q

NullEmptyStep == NullQueueStep /\ EmptyQueueStep /\ SingletonStep

NullEmptyHandling == [][NullEmptyStep]_vars

\* C14 witness: q_delete_mid has returned false on an empty queue whose
\* only element the caller had removed and still holds.
NullEmptyHandlingWitness ==
    /\ lastOp.op = "q_delete_mid"
    /\ ~lastOp.ok
    /\ q # NULL
    /\ Ring = <<>>
    /\ removed # {}
    /\ fault = "none"

\* Whether position i of vs lies in a run of two or more equal neighbours.
InRun(vs, i) ==
    \/ i > 1 /\ vs[i - 1] = vs[i]
    \/ i < Len(vs) /\ vs[i + 1] = vs[i]

Singles(s, vs) ==
    LET keep == {i \in 1..Len(s) : ~InRun(vs, i)}
        RECURSIVE Pick(_)
        Pick(i) ==
            IF i > Len(s) THEN <<>>
            ELSE IF i \in keep THEN <<s[i]>> \o Pick(i + 1)
            ELSE Pick(i + 1)
    IN  Pick(1)

DeleteDupRunsPost ==
    /\ fault' = "none"
    /\ lastOp'.ok
    /\ \A before \in {Ring}, after \in {RingN} :
         /\ after = Singles(before, Values(before))
         /\ ValuesN(after) = Values(after)
         /\ elems' = elems \ (Range(before) \ Range(after))
         /\ bufs' = bufs \ (Range(before) \ Range(after))
         /\ next'[IF after = <<>> THEN q ELSE after[Len(after)]] = q
         /\ \A c \in Range(after) \cup {q} :
              prev'[next'[c]] = c /\ next'[prev'[c]] = c
    /\ sents' = sents

\* C15 (delete_duplicates on arbitrary input), as claimed: on every queue,
\* sorted or not, q_delete_dup completes without fault, returns true, keeps
\* the ring well linked, and deletes exactly the elements that lie in a run
\* of two or more equal neighbours, the others keeping their order.
DeleteDupRunsStep ==
    (Did("q_delete_dup") /\ q # NULL) => DeleteDupRunsPost

DeleteDupRuns == [][DeleteDupRunsStep]_vars

\* The same for the calls whose scratch q_new did not fail.
DeleteDupRunsScratchStep ==
    (Did("q_delete_dup") /\ q # NULL /\ lastOp'.alloc # <<FALSE>>) =>
        DeleteDupRunsPost

DeleteDupRunsScratch == [][DeleteDupRunsScratchStep]_vars

\* The iterations of q_shuffle's loop, replayed one at a time: for each,
\* the ring it started from, the node the index walk stopped at, tail, and
\* the heap it left.
RECURSIVE ShuffleTrace(_, _, _, _, _)
ShuffleTrace(m, head, tail, len, draws) ==
    IF ~Ok(m) \/ ~(len > 1) THEN <<>>
    ELSE LET node == shuffle_walk(m, m.next[head], draws[len] % len)
             m1   == list_add(list_del(m, node), node,
                              list_del(m, node).prev[tail])
         IN  <<[ring |-> RingOf(m, head), node |-> node, tail |-> tail,
                len |-> len, m |-> m1]>>
             \o ShuffleTrace(m1, head, node, len - 1, draws)

Draws(n) == [2..n -> 0..RandMax]

\* C16 (sentinel never read as payload): no call reads or compares the
\* value of a sentinel, of the scratch sentinel or of a null pointer, and
\* none releases a sentinel as an element; the node q_shuffle's index walk
\* stops at is one of the first len nodes of the ring, never the sentinel.
NoSentinelValue == fault \notin {"sentinel", "nullvalue"}

ShufflePicksElements ==
    (fault = "none" /\ q # NULL /\ Len(Ring) >= 2) =>
        \A draws \in Draws(Len(Ring)) :
            LET tr == ShuffleTrace(Mem, q, q, Len(Ring), draws)
            IN  /\ Len(tr) = Len(Ring) - 1
                /\ tr[Len(tr)].m = q_shuffle(Mem, q, draws)
                /\ \A i \in 1..Len(tr) :
                     /\ tr[i].node \in Elems
                     /\ tr[i].node \in
                            Range(SubSeq(tr[i].ring, 1, tr[i].len))

SentinelNotPayload == []NoSentinelValue /\ []ShufflePicksElements

\* C16 witness: q_delete_dup got its scratch list and returned leaving the
\* ring empty: every element was in a run of equal values, the last run
\* reaching the last element of the ring.
SentinelNotPayloadWitness ==
    /\ lastOp.op = "q_delete_dup"
    /\ lastOp.alloc = <<TRUE>>
    /\ fault = "none"
    /\ q # NULL
    /\ Ring = <<>>

\* C17 (termination): no call runs a loop for ever, and on a well-formed
\* queue of n elements each loop ends within n iterations: q_free's,
\* q_swap's and q_reverse's safe traversals, q_delete_dup's outer loop
\* within n - 1, q_sort's ingest loop, fold loop and both loops of
\* merge_final, and q_shuffle's countdown, n - 1 iterations whatever rand()
\* returns.
NoLoopFault == fault # "loop"

SortLoopsBounded(n) ==
    \A i \in {sort_ingest(
                  [Mem EXCEPT !.next = [@ EXCEPT ![prev[q]] = NULL]],
                  next[q], NULL, 0, n)} :
      /\ Ok(i.m)
      /\ i.count = n
      /\ \A f \in {sort_fold(i.m, i.pending, i.m.prev[i.pending], n)} :
           /\ Ok(f.m)
           /\ \A r \in {merge_final_loop(f.m, q, f.pending, f.list, n)} :
                /\ Ok(r.m)
                /\ Ok(merge_final_rest(MergeFinalJoin(r), r.tail, r.b,
                                       n).m)

LoopsBounded ==
    (fault = "none" /\ q # NULL /\ Len(Ring) >= 1) =>
        \A n \in {Len(Ring)} :
            /\ Ok(q_free_loop(Mem, q, next[q], next[next[q]], n))
            /\ Ok(q_swap_loop(Mem, q, next[q], next[next[q]], FALSE, n))
            /\ Ok(q_reverse_loop(Mem, q, next[q], next[next[q]], n))
            /\ n >= 2 =>
                 /\ Ok(delete_dup_outer(q_new(Mem, TRUE, SCRATCH).m,
                                        next[q], SCRATCH, n - 1, n - 1))
                 /\ SortLoopsBounded(n)
                 /\ \A draws \in Draws(n) :
                      /\ Len(ShuffleTrace(Mem, q, q, n, draws)) = n - 1
                      /\ Ok(q_shuffle(Mem, q, draws))

Termination == []NoLoopFault /\ []LoopsBounded

\* C17 witness: q_shuffle has returned on four elements of three distinct
\* values in an order no other operation of the specification produces, so
\* that q_sort's fold loop and q_delete_dup's loops have work to do.
TerminationWitness ==
    /\ lastOp.op = "q_shuffle"
    /\ fault = "none"
    /\ Ring = <<2, 4, 1, 3>>
    /\ Values(Ring)[1] = Values(Ring)[2]
    /\ Values(Ring)[3] # Values(Ring)[4]

\* The nodes of the chain that starts at c and follows next to NULL, and
\* the heads of the pending runs, which follow prev from pending to NULL.
Chain(m, c) == Walk(m.next, NULL, c, <<>>, Fuel)
Runs(m, pending) == Walk(m.prev, NULL, pending, <<>>, Fuel)

\* The iterations of q_sort's do-while, replayed one at a time: for each,
\* the heap, pending, list and count it left, and the lengths of the two
\* runs it merged, if it merged.
RECURSIVE IngestTrace(_, _, _, _)
IngestTrace(m, list, pending, count) ==
    IF ~Ok(m) \/ list = NULL THEN <<>>
    ELSE LET t  == sort_bits(m, pending, NULL, count)
             mg == ~t.null /\ t.bits # 0
             a  == SortLoad(m, pending, t.tail)
             r  == IF mg THEN sort_merge_pending(m, pending, t.tail)
                   ELSE [m |-> m, pending |-> pending]
             m2 == [r.m EXCEPT !.prev = [@ EXCEPT ![list] = r.pending],
                               !.next = [@ EXCEPT ![list] = NULL]]
         IN  <<[m |-> m2, pending |-> list, list |-> r.m.next[list],
                count |-> count + 1,
                merged |-> IF mg THEN <<Len(Chain(m, m.prev[a])),
                                        Len(Chain(m, a))>>
                           ELSE <<>>]>>
             \o IngestTrace(m2, r.m.next[list], list, count + 1)

RECURSIVE Log2(_)
Log2(n) == IF n <= 1 THEN 0 ELSE 1 + Log2(n \div 2)
IsPowerOfTwo(n) == n >= 1 /\ 2 ^ Log2(n) = n

RECURSIVE SumLen(_)
SumLen(ss) == IF ss = <<>> THEN 0 ELSE Len(Head(ss)) + SumLen(Tail(ss))

\* The shape claimed of the pending stack in heap m after count nodes.
RunsShaped(m, pending, count) ==
    \A rs \in {[i \in 1..Len(Runs(m, pending)) |->
                   Chain(m, Runs(m, pending)[i])]} :
        /\ Len(rs) >= 1
        /\ Len(rs) <= Log2(count) + 1
        /\ SumLen(rs) = count
        /\ \A i \in 1..Len(rs) :
             /\ IsPowerOfTwo(Len(rs[i]))
             /\ m.next[rs[i][Len(rs[i])]] = NULL
             /\ Sorted([k \in 1..Len(rs[i]) |-> CStr(m.val[rs[i][k]])])
        /\ \A i, j \in 1..Len(rs) :
             i # j => Range(rs[i]) \cap Range(rs[j]) = {}

\* C18 (sort pending-stack shape): in q_sort's ingest loop, after count
\* nodes have been moved to the pending stack, every pending run is sorted
\* ascending and ends in a NULL next, its length is a power of two, the
\* lengths sum to count, there are at most floor(log2(count)) + 1 runs, and
\* every merge made inside the loop joined two runs of equal length.
PendingShape ==
    (fault = "none" /\ q # NULL /\ Len(Ring) >= 2) =>
        \A m0 \in {[Mem EXCEPT !.next = [@ EXCEPT ![prev[q]] = NULL]]} :
          \A tr \in {IngestTrace(m0, next[q], NULL, 0)} :
            /\ Len(tr) = Len(Ring)
            /\ \A i \in {sort_ingest(m0, next[q], NULL, 0, Fuel)} :
                 /\ tr[Len(tr)].m = i.m
                 /\ tr[Len(tr)].pending = i.pending
                 /\ tr[Len(tr)].count = i.count
            /\ \A k \in 1..Len(tr) :
                 /\ Ok(tr[k].m)
                 /\ tr[k].count = k
                 /\ RunsShaped(tr[k].m, tr[k].pending, k)
                 /\ tr[k].merged # <<>> =>
                      tr[k].merged[1] = tr[k].merged[2]

\* C18 witness: q_sort has returned, and sorting the six or more elements
\* of the ring again merges two runs of length two inside the ingest loop.
PendingShapeWitness ==
    /\ lastOp.op = "q_sort"
    /\ fault = "none"
    /\ Len(Ring) >= 6
    /\ Ring[1] # 1
    /\ \E k \in 1..Len(Ring) :
         IngestTrace([Mem EXCEPT !.next = [@ EXCEPT ![prev[q]] = NULL]],
                     next[q], NULL, 0)[k].merged = <<2, 2>>

\* The position of node e in the sequence of nodes s.
IndexOf(s, e) == CHOOSE i \in 1..Len(s) : s[i] = e

\* C19 (sort stability): after q_sort, nodes whose values compare equal are
\* in the same relative order as before the call.
StableStep ==
    Did("q_sort") =>
        /\ fault' = "none"
        /\ \A before \in {Ring}, after \in {RingN} :
             /\ Range(after) = Range(before)
             /\ Len(after) = Len(before)
             /\ \A i, j \in 1..Len(after) :
                  (i < j /\ strcmp(val[after[i]], val[after[j]]) = 0) =>
                      IndexOf(before, after[i]) < IndexOf(before, after[j])

SortStable == [][StableStep]_vars

\* C19 witness: q_sort has returned on seven elements of which the node
\* allocated first now stands after another, and two nodes of equal value
\* stand next to each other in the middle of the ring.
SortStableWitness ==
    /\ lastOp.op = "q_sort"
    /\ fault = "none"
    /\ Len(Ring) = 7
    /\ Ring[1] # 1
    /\ Values(Ring)[3] = Values(Ring)[4]
    /\ Values(Ring)[1] # Values(Ring)[7]

\* The orders of the nodes of s.
Orders(s) ==
    {p \in [1..Len(s) -> Range(s)] : \A i, j \in 1..Len(s) :
                                        p[i] = p[j] => i = j}

\* One iteration of q_shuffle's loop as claimed: the ring was the len nodes
\* not yet placed followed by the placed ones; the chosen node is the one at
\* index rand() % len; it leaves its place and goes immediately before the
\* placed ones, which stay as they were.
PlacedBefore(e, after, draw) ==
    \A unplaced \in {SubSeq(e.ring, 1, e.len)},
       placed \in {SubSeq(e.ring, e.len + 1, Len(e.ring))} :
        /\ e.node = unplaced[(draw % e.len) + 1]
        /\ e.tail = (IF placed = <<>> THEN q ELSE placed[1])
        /\ after = RemoveAt(unplaced, (draw % e.len) + 1)
                       \o <<e.node>> \o placed

\* C20 (shuffle coverage): for a queue of n >= 2 elements every order of
\* its nodes is what q_shuffle leaves for some results of rand(), the index
\* being rand() % len for len = n down to 2; and in each iteration the
\* detached node is linked in immediately before the node placed in the
\* iteration before, the nodes already placed keeping their places.
ShuffleCoverage ==
    (fault = "none" /\ q # NULL /\ Len(Ring) >= 2) =>
        /\ Orders(Ring) \subseteq
               {RingOf(q_shuffle(Mem, q, draws), q) :
                   draws \in Draws(Len(Ring))}
        /\ \A draws \in Draws(Len(Ring)) :
             \A tr \in {ShuffleTrace(Mem, q, q, Len(Ring), draws)} :
                /\ Len(tr) = Len(Ring) - 1
                /\ tr[Len(tr)].m = q_shuffle(Mem, q, draws)
                /\ \A k \in 1..Len(tr) :
                     /\ tr[k].len = Len(Ring) + 1 - k
                     /\ PlacedBefore(tr[k], RingOf(tr[k].m, q),
                                     draws[tr[k].len])

\* C20 witness: q_shuffle has left four elements of pairwise adjacent
\* distinct values as 2,1,4,3, an order that takes a different index in
\* each of its three iterations to reach from 1,2,3,4.
ShuffleCoverageWitness ==
    /\ lastOp.op = "q_shuffle"
    /\ fault = "none"
    /\ Ring = <<2, 1, 4, 3>>
    /\ Values(Ring)[1] # Values(Ring)[2]
    /\ Values(Ring)[3] # Values(Ring)[4]

====
